---- MODULE Spec2Model ----
(***************************************************************************)
(* Lykke.Job.Steem: the ledger reconciliation job.                         *)
(*                                                                         *)
(* SteemService.handleActions scans the hot wallet's account history from  *)
(* the persisted NextActionSequence, records balance changes and history   *)
(* of every irreversible transfer and advances the checkpoint;             *)
(* SteemService.handleExpired marks operations whose expiry time has       *)
(* passed as failed.  server.ts runs both, one after the other, on every   *)
(* tick of the interval job.  Every await of the code is a point where     *)
(* the tick may be aborted by a rejected promise (action Fail).            *)
(*                                                                         *)
(* Specifications: Spec is the job; FairSpec is the job under the          *)
(* scheduling of its ticks; ObserveSpec is BalanceRepository called by     *)
(* several callers at once, each call made of its storage steps;           *)
(* LedgerSpec and PagingSpec are BalanceRepository called by one caller.   *)
(***************************************************************************)
EXTENDS Integers, Sequences, FiniteSets, TLC

\* ---------------------------------------------------------------- bounds
\* the longest account history and the highest block number explored
MaxActions == 2
MaxBlock == 3
\* the callers of the balance repository that may be in a call at once
MaxCallers == 2
\* the most balance entries the repository is filled with
MaxEntries == 3
\* the largest page size asked of the paginated get
MaxTake == 2

\* ------------------------------------------------------------- constants
\* an optional numeric property that is not set (undefined)
Absent == -1
\* a property that is not set (undefined / null)
NULL == "null"
\* the value of a property set from new Date(): only its presence is read
DATE == "date"

HotWalletAccount == "hot"
ADDRESS_SEPARATOR == "$"
\* block = action.block * 10
BlockFactor == 10
\* new Date(0)
Epoch == 0

\* the timestamp of a block, as isoUTC(block.timestamp) gives it
TimeOfBlock(b) == b

\* ------------------------------------------------------- the environment
\* isSteemAddress: the addresses that satisfy the address-format rule
isSteemAddress(address) == address \in {"hot", "alice", "bob", "hot$m"}

\* AssetRepository.get: the asset of a chain symbol, or NULL when untracked
AssetIdOf(symbol) == IF symbol = "STEEM" THEN "steem" ELSE NULL

\* AssetEntity.toBaseUnit
BaseUnitFactor == 1000
toBaseUnit(value) == value * BaseUnitFactor

Transfer(from, to, memo, value, symbol) ==
    <<"transfer", [from |-> from, to |-> to, memo |-> memo, amount |-> <<value, symbol>>]>>

\* what the chain may append to the hot wallet's account history
\* (trx_id and op of an action; block and timestamp are given on appending)
ActionKinds ==
    { [trx_id |-> "T9", op |-> <<"vote", [from |-> "", to |-> "", memo |-> "", amount |-> <<0, "">>]>>],
      [trx_id |-> "T1", op |-> Transfer("hot", "bob", "", 5, "STEEM")],
      [trx_id |-> "T3", op |-> Transfer("alice", "hot", "", 5, "STEEM")],
      [trx_id |-> "T3", op |-> Transfer("alice", "hot", "m", 2, "STEEM")],
      [trx_id |-> "T4", op |-> Transfer("alice", "hot", "", 5, "XYZ")],
      [trx_id |-> "T5", op |-> Transfer("alice", "hot", "bad memo", 5, "STEEM")] }

\* the operations built upstream: asset, transaction, expiry time
OperationIds == {"O1", "O2"}
OperationAssetId == [o \in OperationIds |-> "steem"]
OperationTxId == [o \in OperationIds |-> IF o = "O1" THEN "T1" ELSE "T2"]
OperationExpiryTime == [o \in OperationIds |-> IF o = "O1" THEN 2 ELSE 3]
\* the planned actions of each operation; O1's two actions share the sender
OperationActions ==
    [o \in OperationIds |->
        IF o = "O1"
        THEN << [RowKey |-> "0", FromAddress |-> "hot", ToAddress |-> "bob", Amount |-> 2, AmountInBaseUnit |-> 2000],
                [RowKey |-> "1", FromAddress |-> "hot", ToAddress |-> "alice", Amount |-> 3, AmountInBaseUnit |-> 3000] >>
        ELSE << [RowKey |-> "0", FromAddress |-> "hot$m", ToAddress |-> "bob", Amount |-> 1, AmountInBaseUnit |-> 1000] >>]

VARIABLES
    accountHistory,               \* the chain: the hot wallet's actions, sequence n at index n+1
    last_irreversible_block_num,  \* the chain: dynamic global properties
    params,                       \* table SteemParams: the checkpoint row
    balances,                     \* collection SteemBalances: _id -> entry
    history,                      \* history ledger: <<txId, actionId>> -> entry
    operations,                   \* operation ledger: operationId -> state
    watched,                      \* collection SteemBalanceAddresses
    pc,                           \* where the tick of the interval job stands
    nextActionSequence,           \* handleActions: the local cursor
    globalProperties,             \* handleActions: last_irreversible_block_num as read
    writes,                       \* handleActions: the writes still to make for the action
    sweepFrom,                    \* handleExpired: lastProcessedIrreversibleBlockTime
    sweepTo,                      \* handleExpired: lastActionIrreversibleBlockTime
    presumablyExpired,            \* handleExpired: the result of the expiry query
    i,                            \* handleExpired: the loop index (from 1)
    classified,                   \* history variable: how the action in hand was classified
    expected,                     \* history variable: ledgers one uninterrupted application gives
    wrote,                        \* history variable: this tick has made a write for the action
    abortedAfterWrite,            \* history variable: a tick was aborted after a write for the action
    failedAt,                     \* history variable: the sequence in hand when the last tick failed
    failUpdates,                  \* history variable: fail updates made per operation
    calls,                        \* BalanceRepository: the calls in flight, per caller
    paging,                       \* a reader of the paginated get: its token and its pages
    probe                         \* history variable: the last upsert and the ledger it left

vars == << accountHistory, last_irreversible_block_num, params, balances, history,
           operations, watched, pc, nextActionSequence, globalProperties, writes,
           sweepFrom, sweepTo, presumablyExpired, i, classified, expected,
           wrote, abortedAfterWrite, failedAt, failUpdates, calls, paging, probe >>

chainVars == << accountHistory, last_irreversible_block_num >>
storeVars == << params, balances, history, operations, watched >>
sweepVars == << sweepFrom, sweepTo, presumablyExpired, i >>
ghostVars == << classified, expected, wrote, abortedAfterWrite, failedAt, failUpdates >>
apiVars == << calls, paging, probe >>
jobVars == << chainVars, params, history, operations, pc, nextActionSequence,
              globalProperties, writes, sweepVars, ghostVars >>


\* ------------------------------------------------------------ repositories
\* ParamsEntity: a column that was never written reads as undefined
Callers == 1 .. MaxCallers

NoParams == [NextActionSequence |-> Absent, LastProcessedIrreversibleBlockTime |-> Absent]

\* a plausible bug: the row is replaced (insertOrReplace), so a column not given is lost
ParamsUpsertReplacing(row, given) ==
    [NextActionSequence |-> given.nextActionSequence,
     LastProcessedIrreversibleBlockTime |-> given.lastProcessedIrreversibleBlockTime]

\* ParamsRepository.upsert: insertOrMerge leaves the columns given as undefined as they are
ParamsUpsert(row, given) ==
    [NextActionSequence |->
        IF given.nextActionSequence # Absent THEN given.nextActionSequence ELSE row.NextActionSequence,
     LastProcessedIrreversibleBlockTime |->
        IF given.lastProcessedIrreversibleBlockTime # Absent
        THEN given.lastProcessedIrreversibleBlockTime ELSE row.LastProcessedIrreversibleBlockTime]

\* a plausible bug: the stored counter is not read and the scan starts from 0
StartSequenceFromZero(row) == 0

\* handleActions: (params && params.NextActionSequence) || 0
StartSequence(row) == IF row.NextActionSequence # Absent THEN row.NextActionSequence ELSE 0

\* handleExpired: (params && params.LastProcessedIrreversibleBlockTime) || new Date(0)
StartTime(row) ==
    IF row.LastProcessedIrreversibleBlockTime # Absent THEN row.LastProcessedIrreversibleBlockTime ELSE Epoch

\* BalanceRepository.isObservable
isObservable(address) == address \in watched

\* BalanceRepository: const id = `${address}_${assetId}_${operationOrTxId}`
BalanceId(address, assetId, operationOrTxId) == address \o "_" \o assetId \o "_" \o operationOrTxId

\* a plausible bug: an entry that exists is not matched, and a second one is inserted
upsertInserting(coll, address, assetId, operationOrTxId, amount, amountInBaseUnit, block) ==
    LET id == BalanceId(address, assetId, operationOrTxId)
        new == IF id \in DOMAIN coll THEN id \o "_2" ELSE id
    IN  [x \in DOMAIN coll \cup {new} |->
            IF x = new
            THEN [Address |-> address, AssetId |-> assetId, OperationOrTxId |-> operationOrTxId,
                  Amount |-> amount, AmountInBaseUnit |-> amountInBaseUnit,
                  Block |-> block, IsObservable |-> isObservable(address),
                  IsCancelled |-> FALSE]
            ELSE coll[x]]

\* a plausible bug: the upsert adds to the stored amounts ($inc) instead of setting them
upsertAdding(coll, address, assetId, operationOrTxId, amount, amountInBaseUnit, block) ==
    LET id == BalanceId(address, assetId, operationOrTxId)
        had == id \in DOMAIN coll
    IN  [x \in DOMAIN coll \cup {id} |->
            IF x = id
            THEN [Address |-> address, AssetId |-> assetId, OperationOrTxId |-> operationOrTxId,
                  Amount |-> IF had THEN coll[id].Amount + amount ELSE amount,
                  AmountInBaseUnit |-> IF had THEN coll[id].AmountInBaseUnit + amountInBaseUnit
                                       ELSE amountInBaseUnit,
                  Block |-> block, IsObservable |-> isObservable(address),
                  IsCancelled |-> IF had THEN coll[id].IsCancelled ELSE FALSE]
            ELSE coll[x]]

\* BalanceRepository.upsert: updateOne({_id}, {$set: ...}, {upsert: true});
\* IsCancelled is not among the fields set, so an existing entry keeps it
upsert(coll, address, assetId, operationOrTxId, amount, amountInBaseUnit, block) ==
    LET id == BalanceId(address, assetId, operationOrTxId)
    IN  [x \in DOMAIN coll \cup {id} |->
            IF x = id
            THEN [Address |-> address, AssetId |-> assetId, OperationOrTxId |-> operationOrTxId,
                  Amount |-> amount, AmountInBaseUnit |-> amountInBaseUnit,
                  Block |-> block, IsObservable |-> isObservable(address),
                  IsCancelled |-> IF id \in DOMAIN coll THEN coll[id].IsCancelled ELSE FALSE]
            ELSE coll[x]]

\* HistoryRepository.upsert: overwrite-or-insert keyed by (txId, actionId)
HistoryUpsert(coll, from, to, assetId, amount, amountInBaseUnit, block, blockTime, txId, actionId, operationId) ==
    LET key == <<txId, actionId>>
    IN  [x \in DOMAIN coll \cup {key} |->
            IF x = key
            THEN [From |-> from, To |-> to, AssetId |-> assetId, Amount |-> amount,
                  AmountInBaseUnit |-> amountInBaseUnit, Block |-> block, BlockTime |-> blockTime,
                  TxId |-> txId, ActionId |-> actionId, OperationId |-> operationId]
            ELSE coll[x]]

\* OperationRepository.getOperationIdByTxId
getOperationIdByTxId(txId) ==
    IF \E o \in OperationIds : OperationTxId[o] = txId
    THEN CHOOSE o \in OperationIds : OperationTxId[o] = txId
    ELSE NULL

\* OperationEntity.isCompleted / isFailed
isCompleted(operation) == operation.CompletionTime # NULL
isFailed(operation) == operation.FailTime # NULL

NewOperation == [CompletionTime |-> NULL, FailTime |-> NULL, ErrorCode |-> NULL,
                 Block |-> Absent, BlockTime |-> Absent]

\* OperationRepository.update(operationId, { completionTime, blockTime, block })
OperationComplete(coll, operationId, blockTime, block) ==
    [coll EXCEPT ![operationId] =
        [@ EXCEPT !.CompletionTime = DATE, !.BlockTime = blockTime, !.Block = block]]

\* OperationRepository.update(operationId, { errorCode, error, failTime })
OperationFail(coll, operationId) ==
    [coll EXCEPT ![operationId] =
        [@ EXCEPT !.FailTime = DATE, !.ErrorCode = "buildingShouldBeRepeated"]]

\* OperationRepository.geOperationIdByExpiryTime(from, to), in table order
SetToSeq(S) ==
    IF "O1" \in S
    THEN (IF "O2" \in S THEN <<"O1", "O2">> ELSE <<"O1">>)
    ELSE (IF "O2" \in S THEN <<"O2">> ELSE <<>>)
geOperationIdByExpiryTime(from, to) ==
    SetToSeq({o \in OperationIds : OperationExpiryTime[o] > from /\ OperationExpiryTime[o] <= to})


\* ----------------------------------------------- handleActions: one action
\* the action at a sequence number: accHistory[0][0] == nextActionSequence && accHistory[0][1]
HasAction(seq) == seq + 1 <= Len(accountHistory)
ActionAt(seq) == accountHistory[seq + 1]

\* a plausible bug: the memo is not made part of the destination address
EffectiveToWithoutMemo(transfer) == transfer.to

\* const to = !!transfer.memo ? transfer.to + ADDRESS_SEPARATOR + transfer.memo : transfer.to
EffectiveTo(transfer) ==
    IF transfer.memo # "" THEN transfer.to \o ADDRESS_SEPARATOR \o transfer.memo ELSE transfer.to

BalanceWrite(address, assetId, operationOrTxId, amount, amountInBaseUnit, block) ==
    [w |-> "balance", address |-> address, assetId |-> assetId, id |-> operationOrTxId,
     amount |-> amount, amountInBaseUnit |-> amountInBaseUnit, block |-> block]

HistoryWrite(from, to, assetId, amount, amountInBaseUnit, block, blockTime, txId, actionId, operationId) ==
    [w |-> "history", from |-> from, to |-> to, assetId |-> assetId, amount |-> amount,
     amountInBaseUnit |-> amountInBaseUnit, block |-> block, blockTime |-> blockTime,
     txId |-> txId, actionId |-> actionId, operationId |-> operationId]

OperationWrite(operationId, blockTime, block) ==
    [w |-> "operation", operationId |-> operationId, blockTime |-> blockTime, block |-> block]

\* the internal path, one planned action: the sender's and the recipient's
\* balance change, then the history of the operation action
RECURSIVE ReplayActions(_, _, _, _, _)
ReplayActions(operationActions, operationId, block, blockTime, txId) ==
    IF operationActions = <<>>
    THEN <<>>
    ELSE LET action == Head(operationActions)
             assetId == OperationAssetId[operationId]
         IN  << BalanceWrite(action.FromAddress, assetId, operationId,
                             -action.Amount, -action.AmountInBaseUnit, block),
                BalanceWrite(action.ToAddress, assetId, operationId,
                             action.Amount, action.AmountInBaseUnit, block),
                HistoryWrite(action.FromAddress, action.ToAddress, assetId, action.Amount,
                             action.AmountInBaseUnit, block, blockTime, txId, action.RowKey, operationId) >>
             \o ReplayActions(Tail(operationActions), operationId, block, blockTime, txId)

\* a plausible bug: the operation's actions are replayed whether or not it is completed
InternalWritesUnguarded(operationId, block, blockTime, txId) ==
    ReplayActions(OperationActions[operationId], operationId, block, blockTime, txId)
        \o << OperationWrite(operationId, blockTime, block) >>

\* a plausible bug: the operation is set to completed before its actions are replayed
InternalWritesCompletingFirst(operationId, block, blockTime, txId) ==
    IF ~isCompleted(operations[operationId])
    THEN << OperationWrite(operationId, blockTime, block) >>
            \o ReplayActions(OperationActions[operationId], operationId, block, blockTime, txId)
    ELSE <<>>

\* the internal path: if (!operation.isCompleted()) { replay; update to completed }
InternalWrites(operationId, block, blockTime, txId) ==
    IF ~isCompleted(operations[operationId])
    THEN ReplayActions(OperationActions[operationId], operationId, block, blockTime, txId)
            \o << OperationWrite(operationId, blockTime, block) >>
    ELSE <<>>

\* the external path: history, then the sender's and the recipient's balance change
ExternalWrites(transfer, block, blockTime, txId, actionId) ==
    LET value == transfer.amount[1]
        assetId == AssetIdOf(transfer.amount[2])
        valueInBaseUnit == toBaseUnit(value)
        to == EffectiveTo(transfer)
    IN  IF assetId # NULL
        THEN IF isSteemAddress(to)
             THEN << HistoryWrite(transfer.from, to, assetId, value, valueInBaseUnit,
                                  block, blockTime, txId, actionId, NULL),
                     BalanceWrite(transfer.from, assetId, txId, -value, -valueInBaseUnit, block),
                     BalanceWrite(to, assetId, txId, value, valueInBaseUnit, block) >>
             ELSE <<>>
        ELSE <<>>

\* the writes handleActions makes for the action at sequence seq, in order
ActionWrites(action, seq) ==
    LET block == action.block * BlockFactor
        blockTime == action.timestamp
        txId == action.trx_id
        actionId == ToString(seq)
    IN  IF action.op[1] = "transfer"
        THEN LET operationId == getOperationIdByTxId(txId)
             IN  IF operationId # NULL
                 THEN InternalWrites(operationId, block, blockTime, txId)
                 ELSE ExternalWrites(action.op[2], block, blockTime, txId, actionId)
        ELSE <<>>

\* the branch of handleActions the action takes
Classification(action) ==
    IF action.op[1] # "transfer" THEN "skipped"
    ELSE IF getOperationIdByTxId(action.trx_id) # NULL
         THEN (IF isCompleted(operations[getOperationIdByTxId(action.trx_id)])
               THEN "completed" ELSE "internal")
         ELSE IF AssetIdOf(action.op[2].amount[2]) = NULL THEN "untracked"
              ELSE IF ~isSteemAddress(EffectiveTo(action.op[2])) THEN "invalid"
                   ELSE "external"

\* one write of the list, made on the ledgers
ApplyWrite(st, w) ==
    IF w.w = "balance"
    THEN [st EXCEPT !.balances =
            upsert(st.balances, w.address, w.assetId, w.id, w.amount, w.amountInBaseUnit, w.block)]
    ELSE IF w.w = "history"
    THEN [st EXCEPT !.history =
            HistoryUpsert(st.history, w.from, w.to, w.assetId, w.amount, w.amountInBaseUnit,
                          w.block, w.blockTime, w.txId, w.actionId, w.operationId)]
    ELSE [st EXCEPT !.operations = OperationComplete(st.operations, w.operationId, w.blockTime, w.block)]

\* all writes of a list, made without interruption (each intermediate ledger is
\* bound as a value, so that it is computed once)
RECURSIVE ApplyAll(_, _)
ApplyAll(st, ws) ==
    IF ws = <<>> THEN st
    ELSE ApplyAll(CHOOSE r \in {ApplyWrite(s, Head(ws)) : s \in {st}} : TRUE, Tail(ws))

Ledgers == [balances |-> balances, history |-> history, operations |-> operations]
NoExpectation == [set |-> FALSE, balances |-> <<>>, history |-> <<>>]


\* no call of the repository in flight, no page read, no upsert made
NoCall == [op |-> "none", address |-> "", isObservable |-> FALSE]
NoPaging == [calls |-> 0, take |-> 0, order |-> <<>>, continuation |-> "", pages |-> <<>>]
NoProbe == [set |-> FALSE, again |-> FALSE, args |-> <<>>, once |-> <<>>]

\* ------------------------------------------------------------------- Init
Init ==
    /\ accountHistory = <<>>
    /\ last_irreversible_block_num = 1
    /\ params = NoParams
    /\ balances = <<>>
    /\ history = <<>>
    /\ operations = [o \in OperationIds |-> NewOperation]
    /\ watched = {HotWalletAccount}
    /\ pc = "idle"
    /\ nextActionSequence = 0
    /\ globalProperties = 0
    /\ writes = <<>>
    /\ sweepFrom = 0
    /\ sweepTo = 0
    /\ presumablyExpired = <<>>
    /\ i = 0
    /\ classified = "none"
    /\ expected = NoExpectation
    /\ wrote = FALSE
    /\ abortedAfterWrite = FALSE
    /\ failedAt = Absent
    /\ failUpdates = [o \in OperationIds |-> 0]
    /\ calls = [c \in Callers |-> NoCall]
    /\ paging = NoPaging
    /\ probe = NoProbe

\* -------------------------------------------------------------- the chain
\* a new action of the hot wallet enters a block above the last irreversible one
ChainAppend ==
    /\ Len(accountHistory) < MaxActions
    /\ last_irreversible_block_num < MaxBlock
    /\ \E k \in ActionKinds :
        accountHistory' = Append(accountHistory,
            [block |-> last_irreversible_block_num + 1,
             timestamp |-> TimeOfBlock(last_irreversible_block_num + 1),
             trx_id |-> k.trx_id, op |-> k.op])
    /\ UNCHANGED << apiVars, last_irreversible_block_num, storeVars, pc, nextActionSequence,
                    globalProperties, writes, sweepVars, ghostVars >>

\* the next block becomes irreversible
AdvanceIrreversible ==
    /\ last_irreversible_block_num < MaxBlock
    /\ last_irreversible_block_num' = last_irreversible_block_num + 1
    /\ UNCHANGED << apiVars, accountHistory, storeVars, pc, nextActionSequence,
                    globalProperties, writes, sweepVars, ghostVars >>

\* ---------------------------------------------------------- handleActions
\* the tick starts: paramsRepository.get(), getDynamicGlobalPropertiesAsync()
HandleActionsStart ==
    /\ pc = "idle"
    /\ pc' = "fetch"
    /\ nextActionSequence' = StartSequence(params)
    /\ globalProperties' = last_irreversible_block_num
    /\ UNCHANGED << apiVars, chainVars, storeVars, writes, sweepVars, ghostVars >>

\* a plausible bug: the action of the last irreversible block itself is left out
IsIrreversibleStrictly(action, lastIrreversible) == action.block < lastIrreversible

\* a plausible bug: the action's block is not compared with the last irreversible block
IsIrreversibleAlways(action, lastIrreversible) == TRUE

\* action.block <= globalProperties.last_irreversible_block_num
IsIrreversible(action, lastIrreversible) == action.block <= lastIrreversible

\* getAccountHistoryAsync(account, nextActionSequence, 0) and the loop's test:
\* an irreversible action is taken in hand, anything else ends the loop
FetchAction ==
    /\ pc = "fetch"
    /\ IF HasAction(nextActionSequence)
          /\ IsIrreversible(ActionAt(nextActionSequence), globalProperties)
       THEN pc' = "classify"
       ELSE pc' = "expired"
    /\ failedAt' = Absent
    /\ UNCHANGED << apiVars, chainVars, storeVars, nextActionSequence, globalProperties, writes,
                    sweepVars, classified, expected, wrote, abortedAfterWrite, failUpdates >>

\* the reads that decide the action's path: getOperationIdByTxId, getActions,
\* get(operationId), assetRepository.get, isSteemAddress
ClassifyAction ==
    /\ pc = "classify"
    /\ pc' = "write"
    /\ writes' = ActionWrites(ActionAt(nextActionSequence), nextActionSequence)
    /\ classified' = Classification(ActionAt(nextActionSequence))
    /\ expected' =
         IF expected.set THEN expected
         ELSE LET st == ApplyAll(Ledgers, ActionWrites(ActionAt(nextActionSequence), nextActionSequence))
              IN  [set |-> TRUE, balances |-> st.balances, history |-> st.history]
    /\ wrote' = FALSE
    /\ UNCHANGED << apiVars, chainVars, storeVars, nextActionSequence, globalProperties,
                    sweepVars, abortedAfterWrite, failedAt, failUpdates >>

\* the next write for the action: balanceRepository.upsert, historyRepository.upsert
\* or operationRepository.update
WriteAction ==
    /\ pc = "write"
    /\ writes # <<>>
    /\ LET st == ApplyWrite(Ledgers, Head(writes))
       IN  /\ balances' = st.balances
           /\ history' = st.history
           /\ operations' = st.operations
    /\ writes' = Tail(writes)
    /\ wrote' = TRUE
    /\ UNCHANGED << apiVars, chainVars, params, watched, pc, nextActionSequence, globalProperties,
                    sweepVars, classified, expected, abortedAfterWrite, failedAt, failUpdates >>

\* a plausible bug: the counter is incremented twice before it is persisted
CheckpointValueSkipping(seq) == seq + 2

\* nextActionSequence++
CheckpointValue(seq) == seq + 1

\* nextActionSequence++; paramsRepository.upsert({ nextActionSequence })
WriteCheckpoint ==
    /\ pc = "write"
    /\ writes = <<>>
    /\ nextActionSequence' = CheckpointValue(nextActionSequence)
    /\ params' = ParamsUpsert(params, [nextActionSequence |-> CheckpointValue(nextActionSequence),
                                       lastProcessedIrreversibleBlockTime |-> Absent])
    /\ pc' = "fetch"
    /\ classified' = "none"
    /\ expected' = NoExpectation
    /\ wrote' = FALSE
    /\ abortedAfterWrite' = FALSE
    /\ UNCHANGED << apiVars, chainVars, balances, history, operations, watched, globalProperties,
                    writes, sweepVars, failedAt, failUpdates >>

\* ---------------------------------------------------------- handleExpired
\* a plausible bug: the sweep fetches the last irreversible block afresh
FreshIrreversibleBlockTime(lastActionIrreversibleBlockNumber) ==
    TimeOfBlock(last_irreversible_block_num)

\* getBlockAsync(lastActionIrreversibleBlockNumber), isoUTC(block.timestamp)
LastActionIrreversibleBlockTime(lastActionIrreversibleBlockNumber) ==
    TimeOfBlock(lastActionIrreversibleBlockNumber)

\* handleExpired(lastActionIrreversibleBlockNumber): paramsRepository.get(),
\* getBlockAsync, geOperationIdByExpiryTime
HandleExpiredStart ==
    /\ pc = "expired"
    /\ pc' = "sweep"
    /\ sweepFrom' = StartTime(params)
    /\ sweepTo' = LastActionIrreversibleBlockTime(globalProperties)
    /\ presumablyExpired' = geOperationIdByExpiryTime(StartTime(params),
                                LastActionIrreversibleBlockTime(globalProperties))
    /\ i' = 1
    /\ UNCHANGED << apiVars, chainVars, storeVars, nextActionSequence, globalProperties, writes, ghostVars >>

\* a plausible bug: an operation that is already failed is failed again
ShouldFailIgnoringFailed(operation) == ~isCompleted(operation)

\* if (!!operation && !operation.isCompleted() && !operation.isFailed())
ShouldFail(operation) == ~isCompleted(operation) /\ ~isFailed(operation)

\* one round of the loop over presumablyExpired
SweepOperation ==
    /\ pc = "sweep"
    /\ i <= Len(presumablyExpired)
    /\ LET operationId == presumablyExpired[i]
       IN  IF ShouldFail(operations[operationId])
           THEN /\ operations' = OperationFail(operations, operationId)
                /\ failUpdates' = [failUpdates EXCEPT ![operationId] = @ + 1]
           ELSE UNCHANGED << operations, failUpdates >>
    /\ i' = i + 1
    /\ UNCHANGED << apiVars, chainVars, params, balances, history, watched, pc, nextActionSequence,
                    globalProperties, writes, sweepFrom, sweepTo, presumablyExpired,
                    classified, expected, wrote, abortedAfterWrite, failedAt >>

\* a plausible bug: the watermark is persisted before the loop has gone through the list
SaveWatermarkAnytime ==
    /\ pc = "sweep"
    /\ params' = ParamsUpsert(params, [nextActionSequence |-> Absent,
                                       lastProcessedIrreversibleBlockTime |-> sweepTo])
    /\ pc' = "idle"
    /\ nextActionSequence' = 0
    /\ globalProperties' = 0
    /\ sweepFrom' = 0
    /\ sweepTo' = 0
    /\ presumablyExpired' = <<>>
    /\ i' = 0
    /\ UNCHANGED << apiVars, chainVars, balances, history, operations, watched, writes, ghostVars >>

\* paramsRepository.upsert({ lastProcessedIrreversibleBlockTime }); the tick ends
SaveWatermark ==
    /\ pc = "sweep"
    /\ i > Len(presumablyExpired)
    /\ params' = ParamsUpsert(params, [nextActionSequence |-> Absent,
                                       lastProcessedIrreversibleBlockTime |-> sweepTo])
    /\ pc' = "idle"
    /\ nextActionSequence' = 0
    /\ globalProperties' = 0
    /\ sweepFrom' = 0
    /\ sweepTo' = 0
    /\ presumablyExpired' = <<>>
    /\ i' = 0
    /\ UNCHANGED << apiVars, chainVars, balances, history, operations, watched, writes, ghostVars >>

\* ------------------------------------------------------------ the interval job
InIntake == pc \in {"fetch", "classify", "write"}

\* a plausible bug: handleActions catches its own error and returns, so the sweep runs
FailContinuingToSweep ==
    /\ pc # "idle"
    /\ pc' = IF InIntake THEN "expired" ELSE "idle"
    /\ failedAt' = IF InIntake THEN nextActionSequence ELSE failedAt
    /\ abortedAfterWrite' = (abortedAfterWrite \/ (pc = "write" /\ wrote))
    /\ wrote' = FALSE
    /\ classified' = "none"
    /\ writes' = <<>>
    /\ IF InIntake
       THEN UNCHANGED << nextActionSequence, globalProperties >>
       ELSE nextActionSequence' = 0 /\ globalProperties' = 0
    /\ sweepFrom' = 0
    /\ sweepTo' = 0
    /\ presumablyExpired' = <<>>
    /\ i' = 0
    /\ UNCHANGED << apiVars, chainVars, storeVars, expected, failUpdates >>

\* a plausible bug: the interval job stops at the first error (stopOnError: true)
FailStopping ==
    /\ pc # "idle"
    /\ pc' = "stopped"
    /\ failedAt' = IF InIntake THEN nextActionSequence ELSE failedAt
    /\ abortedAfterWrite' = (abortedAfterWrite \/ (pc = "write" /\ wrote))
    /\ wrote' = FALSE
    /\ classified' = "none"
    /\ writes' = <<>>
    /\ nextActionSequence' = 0
    /\ globalProperties' = 0
    /\ sweepFrom' = 0
    /\ sweepTo' = 0
    /\ presumablyExpired' = <<>>
    /\ i' = 0
    /\ UNCHANGED << apiVars, chainVars, storeVars, expected, failUpdates >>

\* a chain call, a storage call or a log write rejects: the tick is aborted, the
\* error is logged by the job's catch, and the next tick starts afresh
Fail ==
    /\ pc # "idle"
    /\ pc' = "idle"
    /\ failedAt' = IF InIntake THEN nextActionSequence ELSE failedAt
    /\ abortedAfterWrite' = (abortedAfterWrite \/ (pc = "write" /\ wrote))
    /\ wrote' = FALSE
    /\ classified' = "none"
    /\ writes' = <<>>
    /\ nextActionSequence' = 0
    /\ globalProperties' = 0
    /\ sweepFrom' = 0
    /\ sweepTo' = 0
    /\ presumablyExpired' = <<>>
    /\ i' = 0
    /\ UNCHANGED << apiVars, chainVars, storeVars, expected, failUpdates >>

Next ==
    \/ ChainAppend
    \/ AdvanceIrreversible
    \/ HandleActionsStart
    \/ FetchAction
    \/ ClassifyAction
    \/ WriteAction
    \/ WriteCheckpoint
    \/ HandleExpiredStart
    \/ SweepOperation
    \/ SaveWatermark
    \/ Fail

Spec == Init /\ [][Next]_vars

\* the interval job keeps scheduling ticks, and every call a tick awaits settles:
\* it resolves (the step is taken) or it rejects (Fail)
Scheduling ==
    /\ WF_vars(HandleActionsStart)
    /\ WF_vars(FetchAction)
    /\ WF_vars(ClassifyAction)
    /\ WF_vars(WriteAction)
    /\ WF_vars(WriteCheckpoint)
    /\ WF_vars(HandleExpiredStart)
    /\ WF_vars(SweepOperation)
    /\ WF_vars(SaveWatermark)

FairSpec == Init /\ [][Next]_vars /\ Scheduling


\* ------------------------------------------------ BalanceRepository calls
\* the addresses the wallet API is asked to observe
ApiAddresses == {"alice", "bob"}

\* the arguments upsert is called with
UpsertInputs ==
    { [address |-> a, assetId |-> "steem", operationOrTxId |-> t,
       amount |-> v, amountInBaseUnit |-> toBaseUnit(v),
       block |-> IF t = "T3" THEN 2 * BlockFactor ELSE 3 * BlockFactor] :
         a \in {HotWalletAccount} \cup ApiAddresses, t \in {"T3", "O1"}, v \in {5, -2} }

\* updateMany({ Address: { $eq: address } }, { $set: { IsObservable: flag } })
updateMany(coll, address, flag) ==
    [x \in DOMAIN coll |->
        IF coll[x].Address = address THEN [coll[x] EXCEPT !.IsObservable = flag] ELSE coll[x]]

\* the second step of upsert: updateOne({ _id: id }, { $set: ... IsObservable: isObservable },
\* { upsert: true }) with the value isObservable returned before
updateOne(coll, u, observable) ==
    LET id == BalanceId(u.address, u.assetId, u.operationOrTxId)
    IN  [x \in DOMAIN coll \cup {id} |->
            IF x = id
            THEN [Address |-> u.address, AssetId |-> u.assetId,
                  OperationOrTxId |-> u.operationOrTxId,
                  Amount |-> u.amount, AmountInBaseUnit |-> u.amountInBaseUnit,
                  Block |-> u.block, IsObservable |-> observable,
                  IsCancelled |-> IF id \in DOMAIN coll THEN coll[id].IsCancelled ELSE FALSE]
            ELSE coll[x]]

\* update(address, assetId, operationOrTxId, { isCancelled }) of an existing entry
update(coll, id, isCancelled) == [coll EXCEPT ![id].IsCancelled = isCancelled]

\* observe, first step: replaceOne({ _id: address }, { _id: address }, { upsert: true })
ObserveReplaceOne(c, address) ==
    /\ calls[c].op = "none"
    /\ watched' = watched \cup {address}
    /\ calls' = [calls EXCEPT ![c] = [op |-> "observe", address |-> address, isObservable |-> FALSE]]
    /\ UNCHANGED << jobVars, balances, paging, probe >>

\* observe, second step: the entries of the address are set observable; the call returns
ObserveUpdateMany(c) ==
    /\ calls[c].op = "observe"
    /\ balances' = updateMany(balances, calls[c].address, TRUE)
    /\ calls' = [calls EXCEPT ![c] = NoCall]
    /\ UNCHANGED << jobVars, watched, paging, probe >>

\* remove, first step: deleteOne({ _id: address })
RemoveDeleteOne(c, address) ==
    /\ calls[c].op = "none"
    /\ watched' = watched \ {address}
    /\ calls' = [calls EXCEPT ![c] = [op |-> "remove", address |-> address, isObservable |-> FALSE]]
    /\ UNCHANGED << jobVars, balances, paging, probe >>

\* remove, second step: the entries of the address are set not observable; the call returns
RemoveUpdateMany(c) ==
    /\ calls[c].op = "remove"
    /\ balances' = updateMany(balances, calls[c].address, FALSE)
    /\ calls' = [calls EXCEPT ![c] = NoCall]
    /\ UNCHANGED << jobVars, watched, paging, probe >>

\* upsert, first step: const isObservable = await this.isObservable(address)
UpsertIsObservable(c, address) ==
    /\ calls[c].op = "none"
    /\ calls' = [calls EXCEPT ![c] = [op |-> "upsert", address |-> address,
                                      isObservable |-> isObservable(address)]]
    /\ UNCHANGED << jobVars, balances, watched, paging, probe >>

\* upsert, second step: updateOne with the value read; the call returns
UpsertUpdateOne(c) ==
    /\ calls[c].op = "upsert"
    /\ \E u \in UpsertInputs :
          /\ u.address = calls[c].address
          /\ u.operationOrTxId = "T3"
          /\ u.amount = 5
          /\ balances' = updateOne(balances, u, calls[c].isObservable)
    /\ calls' = [calls EXCEPT ![c] = NoCall]
    /\ UNCHANGED << jobVars, watched, paging, probe >>

\* the wallet API and the job call the repository concurrently
ObserveNext ==
    \E c \in Callers :
        \/ \E address \in ApiAddresses : ObserveReplaceOne(c, address)
        \/ ObserveUpdateMany(c)
        \/ \E address \in ApiAddresses : RemoveDeleteOne(c, address)
        \/ RemoveUpdateMany(c)
        \/ \E address \in ApiAddresses : UpsertIsObservable(c, address)
        \/ UpsertUpdateOne(c)

ObserveSpec == Init /\ [][ObserveNext]_vars

\* --------------------------------------------- BalanceRepository, one caller
RECURSIVE SumField(_, _, _)
\* $sum of a field over the entries with the given ids
SumField(coll, ids, field) ==
    IF ids = {} THEN 0
    ELSE LET id == CHOOSE x \in ids : TRUE
         IN  coll[id][field] + SumField(coll, ids \ {id}, field)

\* $max of Block over the entries with the given ids
MaxBlockOf(coll, ids) == CHOOSE b \in {coll[x].Block : x \in ids} : \A x \in ids : coll[x].Block <= b

\* $group: { _id: { Address, AssetId }, Amount: $sum, AmountInBaseUnit: $sum, Block: $max }
Group(coll, ids, address, assetId) ==
    [Address |-> address, AssetId |-> assetId,
     Amount |-> SumField(coll, ids, "Amount"),
     AmountInBaseUnit |-> SumField(coll, ids, "AmountInBaseUnit"),
     Block |-> MaxBlockOf(coll, ids)]

\* what next() gives when the aggregation is empty: null, no field set
NullBalance ==
    [Address |-> NULL, AssetId |-> NULL, Amount |-> 0, AmountInBaseUnit |-> 0, Block |-> 0]

\* get(address, assetId): $match { Address, AssetId, IsCancelled: { $ne: true } }, $group,
\* and next(), which is null when nothing matched
get(coll, address, assetId) ==
    LET ids == {x \in DOMAIN coll : /\ coll[x].Address = address
                                    /\ coll[x].AssetId = assetId
                                    /\ coll[x].IsCancelled # TRUE}
    IN  IF ids = {} THEN NullBalance ELSE Group(coll, ids, address, assetId)

\* one call of upsert by a single caller, on a repository of at most MaxEntries entries
UpsertCall(u) ==
    /\ paging.calls = 0
    /\ Cardinality(DOMAIN balances \cup {BalanceId(u.address, u.assetId, u.operationOrTxId)})
          <= MaxEntries
    /\ balances' = upsert(balances, u.address, u.assetId, u.operationOrTxId,
                          u.amount, u.amountInBaseUnit, u.block)
    /\ probe' = [set |-> TRUE, again |-> FALSE, args |-> u, once |-> balances']
    /\ UNCHANGED << jobVars, watched, calls, paging >>

\* the same call once more, right after
UpsertAgain ==
    /\ probe.set
    /\ ~probe.again
    /\ paging.calls = 0
    /\ balances' = upsert(balances, probe.args.address, probe.args.assetId,
                          probe.args.operationOrTxId, probe.args.amount,
                          probe.args.amountInBaseUnit, probe.args.block)
    /\ probe' = [probe EXCEPT !.again = TRUE]
    /\ UNCHANGED << jobVars, watched, calls, paging >>

\* one call of update on an existing entry
UpdateCall(id, isCancelled) ==
    /\ paging.calls = 0
    /\ id \in DOMAIN balances
    /\ balances' = update(balances, id, isCancelled)
    /\ probe' = NoProbe
    /\ UNCHANGED << jobVars, watched, calls, paging >>

LedgerNext ==
    \/ \E u \in UpsertInputs : UpsertCall(u)
    \/ UpsertAgain
    \/ \E u \in UpsertInputs : \E isCancelled \in BOOLEAN :
          UpdateCall(BalanceId(u.address, u.assetId, u.operationOrTxId), isCancelled)

LedgerSpec == Init /\ [][LedgerNext]_vars

\* ------------------------------------------- BalanceRepository, paginated get
\* observe by a single caller: both steps, and the call returns
ObserveAddress(address) ==
    /\ paging.calls = 0
    /\ watched' = watched \cup {address}
    /\ balances' = updateMany(balances, address, TRUE)
    /\ UNCHANGED << jobVars, apiVars >>

\* (skip + take).toFixed(): the decimal digits of the number
toFixed(n) == ToString(n)

\* the numbers a continuation token can stand for
Skips == 0 .. (MaxEntries + MaxTake)

\* parseInt(continuation) || 0: the number the digits stand for, 0 for no token
parseInt(continuation) ==
    IF \E n \in Skips : toFixed(n) = continuation
    THEN CHOOSE n \in Skips : toFixed(n) = continuation
    ELSE 0

\* $match: { IsCancelled: { $ne: true }, IsObservable: { $eq: true } }
Matched(coll) == {x \in DOMAIN coll : coll[x].IsCancelled # TRUE /\ coll[x].IsObservable = TRUE}

\* the _id values of $group: the (Address, AssetId) pairs of the matched entries
GroupKeys(coll) == {<<coll[x].Address, coll[x].AssetId>> : x \in Matched(coll)}

\* $group has no defined order: any order of the groups, the same for every
\* call on an unchanged collection
Orders(keys) ==
    {f \in [1 .. Cardinality(keys) -> keys] : \A j, k \in DOMAIN f : f[j] = f[k] => j = k}

\* one call of get(take, continuation) with the token the call before returned:
\* $match, $group, $skip, $limit, and the token
\* entities.length < take ? null : (skip + take).toFixed()
GetPage(take) ==
    /\ paging.continuation # NULL
    /\ paging.calls = 0 \/ take = paging.take
    /\ \E order \in Orders(GroupKeys(balances)) :
          /\ paging.calls > 0 => order = paging.order
          /\ LET skip == parseInt(paging.continuation)
                 last == IF skip + take < Len(order) THEN skip + take ELSE Len(order)
                 keys == SubSeq(order, skip + 1, last)
                 entities == [k \in 1 .. Len(keys) |->
                                Group(balances,
                                      {x \in Matched(balances) :
                                          <<balances[x].Address, balances[x].AssetId>> = keys[k]},
                                      keys[k][1], keys[k][2])]
             IN  paging' = [calls |-> paging.calls + 1,
                            take |-> take,
                            order |-> order,
                            continuation |-> IF Len(entities) < take THEN NULL
                                             ELSE toFixed(skip + take),
                            pages |-> Append(paging.pages, entities)]
    /\ UNCHANGED << jobVars, balances, watched, calls, probe >>

PagingNext ==
    \/ \E u \in UpsertInputs : UpsertCall(u)
    \/ \E u \in UpsertInputs : \E isCancelled \in BOOLEAN :
          UpdateCall(BalanceId(u.address, u.assetId, u.operationOrTxId), isCancelled)
    \/ \E address \in ApiAddresses : ObserveAddress(address)
    \/ \E take \in 1 .. MaxTake : GetPage(take)

PagingSpec == Init /\ [][PagingNext]_vars

\* ================================================================ properties
\* the persisted nextActionSequence, a row never written counting as 0
Persisted == IF params.NextActionSequence = Absent THEN 0 ELSE params.NextActionSequence

\* the ledgers show the action at sequence n as applied: an external transfer has
\* its history entry and both balance entries, and no transfer of an operation is
\* left with the operation not completed
AppliedAction(n) ==
    LET action == ActionAt(n)
        transfer == action.op[2]
        to == IF transfer.memo # "" THEN transfer.to \o "$" \o transfer.memo ELSE transfer.to
    IN  IF action.op[1] # "transfer" THEN TRUE
        ELSE IF \E o \in OperationIds : OperationTxId[o] = action.trx_id
             THEN \A o \in OperationIds :
                     OperationTxId[o] = action.trx_id => operations[o].CompletionTime # NULL
             ELSE (AssetIdOf(transfer.amount[2]) # NULL /\ isSteemAddress(to)) =>
                     /\ <<action.trx_id, ToString(n)>> \in DOMAIN history
                     /\ (transfer.from \o "_steem_" \o action.trx_id) \in DOMAIN balances
                     /\ (to \o "_steem_" \o action.trx_id) \in DOMAIN balances

\* C1 (crash recovery): when a tick was aborted after a balance or history write
\* for the action in hand and before its checkpoint write, then once a later tick
\* has made all writes for that action again the balance ledger and the history
\* ledger are exactly what one uninterrupted application of the action gives
CrashRecovery ==
    (pc = "write" /\ writes = <<>> /\ abortedAfterWrite) =>
        (balances = expected.balances /\ history = expected.history)

\* the re-run after such an abort has written the action's entries again
CrashRecoveryWitness ==
    /\ pc = "write"
    /\ writes = <<>>
    /\ abortedAfterWrite
    /\ wrote
    /\ balances # <<>>

\* C2 (checkpoint monotonicity): the cursor in hand during intake is the persisted
\* one, so no action is fetched before the checkpoint of the one before is
\* persisted; and the persisted nextActionSequence changes only by the checkpoint
\* write that follows the application of the action at the old value, by +1
CheckpointMonotonic ==
    /\ [](InIntake => nextActionSequence = Persisted)
    /\ [][Persisted' # Persisted =>
            /\ Persisted' = Persisted + 1
            /\ pc = "write" /\ writes = <<>>
            /\ nextActionSequence = Persisted
            /\ HasAction(Persisted)
            /\ AppliedAction(Persisted)]_vars

\* the checkpoint has been advanced twice, the second time past a recorded transfer
CheckpointMonotonicWitness ==
    /\ Persisted = 2
    /\ pc = "fetch"
    /\ history # <<>>

\* C3: when handleActions returns without error, the persisted
\* nextActionSequence is the first sequence with no action or with an action
\* above the last irreversible block read by the tick, and every action below
\* it is irreversible and applied
ReturnsAtFirstNotIrreversible ==
    pc = "expired" =>
        /\ ~HasAction(Persisted) \/ ActionAt(Persisted).block > globalProperties
        /\ \A n \in 0 .. (Persisted - 1) :
              /\ HasAction(n)
              /\ ActionAt(n).block <= globalProperties
              /\ AppliedAction(n)

\* handleActions returns in front of an action that is not yet irreversible,
\* having applied the one before it
ReturnsAtFirstNotIrreversibleWitness ==
    /\ pc = "expired"
    /\ Persisted = 1
    /\ HasAction(1)
    /\ ActionAt(1).block > globalProperties
    /\ balances # <<>>

\* C4 (failure semantics): after a tick failed while handling the action at
\* sequence s, the persisted nextActionSequence is s, and the next tick's first
\* fetch is made at s
FailureKeepsSequence ==
    failedAt # Absent =>
        /\ Persisted = failedAt
        /\ (pc = "fetch" => nextActionSequence = failedAt)

\* a tick failed at the second action after a write for it, and the next tick
\* is about to fetch
FailureKeepsSequenceWitness ==
    /\ failedAt = 1
    /\ abortedAfterWrite
    /\ pc = "fetch"


\* C5 (stated as claimed): an operation enters a terminal state at most once, so
\* no operation is ever both failed and completed
TerminalAtMostOnce ==
    \A o \in OperationIds :
        ~(operations[o].CompletionTime # NULL /\ operations[o].FailTime # NULL)

\* C6 (internal vs external exclusivity): while handleActions handles a transfer
\* of an operation that it found completed, it has no write to make, no step
\* changes the balance ledger, the history ledger or the operation, and the
\* handling ends with the checkpoint advanced by 1
CompletedIsNotReapplied ==
    /\ [](classified = "completed" => (pc = "write" /\ writes = <<>>))
    /\ [][classified = "completed" =>
            /\ balances' = balances
            /\ history' = history
            /\ operations' = operations
            /\ (pc' \notin {"write", "idle"} => (pc' = "fetch" /\ Persisted' = Persisted + 1))]_vars

\* the transfer of a completed operation is in hand again after an aborted tick
\* that had completed it
CompletedIsNotReappliedWitness ==
    /\ classified = "completed"
    /\ abortedAfterWrite
    /\ pc = "write"

\* the operation's expiry time lies strictly inside the range of the sweep
StrictlyInSweep(o) == sweepFrom < OperationExpiryTime[o] /\ OperationExpiryTime[o] < sweepTo

\* C7 (expiry boundary): no operation is given the fail update more than once,
\* whatever sweeps run over it; and when a sweep has gone through its list,
\* every operation whose expiry time lies strictly inside the sweep's range and
\* that is not completed is failed with buildingShouldBeRepeated, by one update
FailedExactlyOnce ==
    /\ \A o \in OperationIds : failUpdates[o] <= 1
    /\ (pc = "sweep" /\ i > Len(presumablyExpired)) =>
          \A o \in OperationIds :
              (StrictlyInSweep(o) /\ operations[o].CompletionTime = NULL) =>
                  /\ operations[o].FailTime # NULL
                  /\ operations[o].ErrorCode = "buildingShouldBeRepeated"
                  /\ failUpdates[o] = 1

\* a second sweep over the range: an operation further down the list is already
\* failed, so an earlier sweep went through the list, and this sweep has passed
\* a failed operation strictly inside the range without updating it again
FailedExactlyOnceWitness ==
    /\ pc = "sweep"
    /\ \E j \in 1 .. Len(presumablyExpired), k \in 1 .. Len(presumablyExpired) :
          /\ j < i /\ i <= k
          /\ operations[presumablyExpired[k]].FailTime # NULL
          /\ StrictlyInSweep(presumablyExpired[j])
          /\ operations[presumablyExpired[j]].FailTime # NULL
          /\ operations[presumablyExpired[j]].CompletionTime = NULL
          /\ failUpdates[presumablyExpired[j]] = 1

\* the operation's transaction is a transfer action of the hot wallet in a block
\* at or below block number b
HasTransferUpTo(o, b) ==
    \E n \in 1 .. Len(accountHistory) :
        /\ accountHistory[n].op[1] = "transfer"
        /\ accountHistory[n].trx_id = OperationTxId[o]
        /\ accountHistory[n].block <= b

\* C8 (intake takes precedence over expiry): when the sweep of a tick runs, its
\* upper time bound is the timestamp of the block number handleActions returned,
\* and every operation with a transfer action at or below that block number is
\* completed; the sweep marks no such operation failed
IntakeBeforeExpiry ==
    /\ [](pc = "sweep" => sweepTo = TimeOfBlock(globalProperties))
    /\ [](pc \in {"expired", "sweep"} =>
            \A o \in OperationIds :
                HasTransferUpTo(o, globalProperties) => operations[o].CompletionTime # NULL)
    /\ [][\A o \in OperationIds :
            (operations[o].FailTime = NULL /\ operations'[o].FailTime # NULL) =>
                (pc = "sweep" /\ ~HasTransferUpTo(o, globalProperties))]_vars

\* a sweep has gone through a list holding an operation that the intake pass
\* completed, and did not fail it, while the chain's last irreversible block
\* has moved on since handleActions read it
IntakeBeforeExpiryWitness ==
    /\ pc = "sweep"
    /\ i > Len(presumablyExpired)
    /\ last_irreversible_block_num > globalProperties
    /\ \E k \in 1 .. Len(presumablyExpired) :
          /\ HasTransferUpTo(presumablyExpired[k], globalProperties)
          /\ operations[presumablyExpired[k]].CompletionTime # NULL
          /\ operations[presumablyExpired[k]].FailTime = NULL

\* the balance entries and the history entries attributable to an operation
BalanceEntriesOf(o) == {id \in DOMAIN balances : balances[id].OperationOrTxId = o}
HistoryEntriesOf(o) == {key \in DOMAIN history : history[key].OperationId = o}

\* C9 (stated as claimed): once handleActions has applied the transfer of an
\* operation with k planned actions, the balance ledger holds 2k entries of the
\* operation and the history ledger k
TwoBalanceEntriesPerPlannedAction ==
    \A o \in OperationIds :
        operations[o].CompletionTime # NULL =>
            /\ Cardinality(BalanceEntriesOf(o)) = 2 * Len(OperationActions[o])
            /\ Cardinality(HistoryEntriesOf(o)) = Len(OperationActions[o])

\* the action is one that handleActions drops: not a transfer, or a transfer of
\* no operation whose asset symbol is unknown or whose destination, with the
\* separator and the memo when there is a memo, is no Steem address
Dropped(action) ==
    \/ action.op[1] # "transfer"
    \/ /\ \A o \in OperationIds : OperationTxId[o] # action.trx_id
       /\ \/ AssetIdOf(action.op[2].amount[2]) = NULL
          \/ ~isSteemAddress(IF action.op[2].memo # ""
                             THEN action.op[2].to \o "$" \o action.op[2].memo
                             ELSE action.op[2].to)

\* C10 (dropped actions): for a dropped action handleActions has no write to
\* make, no step of its handling changes the balance ledger, the history ledger
\* or an operation, and the handling ends with nextActionSequence advanced by 1
DroppedActionsOnlyAdvance ==
    /\ [](pc = "write" /\ Dropped(ActionAt(nextActionSequence)) => writes = <<>>)
    /\ [][(pc \in {"classify", "write"} /\ Dropped(ActionAt(nextActionSequence))) =>
            /\ balances' = balances
            /\ history' = history
            /\ operations' = operations
            /\ (pc' \notin {"classify", "write", "idle"} =>
                    (pc' = "fetch" /\ Persisted' = Persisted + 1))]_vars

\* the checkpoint stands behind a transfer with a memo that was dropped for its
\* destination address, and the ledgers are empty
DroppedActionsOnlyAdvanceWitness ==
    /\ Persisted >= 1
    /\ \E n \in 0 .. (Persisted - 1) :
          /\ ActionAt(n).op[1] = "transfer"
          /\ ActionAt(n).op[2].memo # ""
          /\ AssetIdOf(ActionAt(n).op[2].amount[2]) # NULL
          /\ Dropped(ActionAt(n))
    /\ balances = <<>>
    /\ history = <<>>


\* C11 (only irreversible actions are processed): the action in hand is at or
\* below the last irreversible block read at the start of the tick; a balance
\* entry, a history entry, an operation's completion and the persisted
\* nextActionSequence change only in handling such an action; and on an
\* action above that block, or on a missing sequence, the loop ends and
\* handleActions returns without error
OnlyIrreversibleProcessed ==
    /\ [](pc \in {"classify", "write"} =>
            /\ HasAction(nextActionSequence)
            /\ ActionAt(nextActionSequence).block <= globalProperties)
    /\ [][(\/ balances' # balances
           \/ history' # history
           \/ \E o \in OperationIds : operations'[o].CompletionTime # operations[o].CompletionTime
           \/ Persisted' # Persisted) =>
              /\ pc = "write"
              /\ HasAction(nextActionSequence)
              /\ ActionAt(nextActionSequence).block <= globalProperties]_vars
    /\ [][(pc = "fetch" /\ pc' \notin {"fetch", "idle"}) =>
              IF HasAction(nextActionSequence)
                 /\ ActionAt(nextActionSequence).block <= globalProperties
              THEN pc' = "classify"
              ELSE pc' = "expired" /\ failedAt' = Absent /\ Persisted' = Persisted]_vars

\* handleActions has returned in front of a transfer above the last irreversible
\* block it read, and nothing of that transfer is in the history ledger
OnlyIrreversibleProcessedWitness ==
    /\ pc = "expired"
    /\ HasAction(nextActionSequence)
    /\ ActionAt(nextActionSequence).op[1] = "transfer"
    /\ ActionAt(nextActionSequence).trx_id = "T3"
    /\ ActionAt(nextActionSequence).block > globalProperties
    /\ <<"T3", ToString(nextActionSequence)>> \notin DOMAIN history

\* C16 (completion is the last write of the internal path): an operation that is
\* completed has, for every planned action, its history entry (txId, RowKey) and
\* the sender's and the recipient's balance entry keyed by the operation id; and
\* a write for an action is made only after the action was classified
CompletionIsLastWrite ==
    /\ \A o \in OperationIds :
          operations[o].CompletionTime # NULL =>
              \A k \in 1 .. Len(OperationActions[o]) :
                  /\ <<OperationTxId[o], OperationActions[o][k].RowKey>> \in DOMAIN history
                  /\ (OperationActions[o][k].FromAddress \o "_" \o OperationAssetId[o] \o "_" \o o)
                        \in DOMAIN balances
                  /\ (OperationActions[o][k].ToAddress \o "_" \o OperationAssetId[o] \o "_" \o o)
                        \in DOMAIN balances
    /\ (pc = "write" /\ (wrote \/ writes # <<>>)) => classified \in {"internal", "external"}

\* an operation is completed and the tick that completed it was aborted before
\* the checkpoint write
CompletionIsLastWriteWitness ==
    /\ operations["O1"].CompletionTime # NULL
    /\ abortedAfterWrite
    /\ pc = "idle"
    /\ Persisted = 0

\* C17 (the sweep follows a completed intake): handleExpired starts only from
\* the return of handleActions without error, the tick is in one of the two at
\* a time, an abort of handleActions ends the tick, and an operation is marked
\* failed or the watermark written only by a sweep
SweepFollowsIntake ==
    [][/\ (pc' = "expired" /\ pc # "expired") =>
              (pc = "fetch" /\ failedAt' = Absent
               /\ ~(HasAction(nextActionSequence)
                    /\ ActionAt(nextActionSequence).block <= globalProperties))
       /\ (pc' = "sweep" /\ pc # "sweep") => pc = "expired"
       /\ (InIntake /\ failedAt' # Absent /\ pc' # pc) => pc' = "idle"
       /\ (pc = "idle" /\ pc' # "idle") => pc' = "fetch"
       /\ (\/ params'.LastProcessedIrreversibleBlockTime # params.LastProcessedIrreversibleBlockTime
           \/ \E o \in OperationIds : operations'[o].FailTime # operations[o].FailTime) =>
              (pc = "sweep" /\ failedAt = Absent)]_vars

\* a tick was aborted in handleActions after a write and is over, with an
\* operation past its expiry time still pending and no watermark written
SweepFollowsIntakeWitness ==
    /\ pc = "idle"
    /\ failedAt # Absent
    /\ abortedAfterWrite
    /\ last_irreversible_block_num >= 2
    /\ operations["O1"].FailTime = NULL
    /\ operations["O1"].CompletionTime = NULL
    /\ params.LastProcessedIrreversibleBlockTime = Absent

\* C18 (the checkpoint fields are written independently): a write that changes
\* the persisted nextActionSequence is the checkpoint write of handleActions and
\* leaves lastProcessedIrreversibleBlockTime as it is; a write that changes
\* lastProcessedIrreversibleBlockTime is the sweep's and leaves nextActionSequence
CheckpointFieldsIndependent ==
    [][/\ params'.NextActionSequence # params.NextActionSequence =>
              /\ pc = "write"
              /\ params'.LastProcessedIrreversibleBlockTime = params.LastProcessedIrreversibleBlockTime
       /\ params'.LastProcessedIrreversibleBlockTime # params.LastProcessedIrreversibleBlockTime =>
              /\ pc = "sweep"
              /\ params'.NextActionSequence = params.NextActionSequence]_vars

\* both fields are set and the tick has just written the watermark
CheckpointFieldsIndependentWitness ==
    /\ params.NextActionSequence = 2
    /\ params.LastProcessedIrreversibleBlockTime = 3
    /\ pc = "idle"

\* C19 (stated as claimed): when handleActions has returned without error, the
\* Amount and the AmountInBaseUnit of all balance entries of the asset each sum
\* to zero
Conservation ==
    pc = "expired" =>
        /\ SumField(balances, {id \in DOMAIN balances : balances[id].AssetId = "steem"}, "Amount") = 0
        /\ SumField(balances, {id \in DOMAIN balances : balances[id].AssetId = "steem"}, "AmountInBaseUnit") = 0

\* C20 (no expired operation is missed): no operation whose expiry time is at
\* or before the persisted lastProcessedIrreversibleBlockTime is still pending
NoExpiredMissed ==
    params.LastProcessedIrreversibleBlockTime # Absent =>
        \A o \in OperationIds :
            OperationExpiryTime[o] <= params.LastProcessedIrreversibleBlockTime =>
                (operations[o].CompletionTime # NULL \/ operations[o].FailTime # NULL)

\* the persisted watermark covers the expiry time of both operations, and each
\* of them was marked failed by exactly one update
NoExpiredMissedWitness ==
    /\ params.LastProcessedIrreversibleBlockTime = 3
    /\ operations["O1"].FailTime # NULL
    /\ operations["O2"].FailTime # NULL
    /\ failUpdates["O1"] = 1
    /\ failUpdates["O2"] = 1


\* C15 (progress despite failed ticks): if from some point on no tick is aborted
\* in handleActions, then every action of the account that is at or below the
\* chain's last irreversible block is eventually applied: the persisted
\* nextActionSequence comes to exceed its sequence number
ProgressDespiteFailedTicks ==
    (<>[][~(InIntake /\ Fail)]_vars) =>
        \A n \in 0 .. (MaxActions - 1) :
            (HasAction(n) /\ ActionAt(n).block <= last_irreversible_block_num) ~> (Persisted > n)

\* a tick was just aborted in handleActions after a write, with two actions of
\* the account at or below the last irreversible block and none of them applied
ProgressDespiteFailedTicksWitness ==
    /\ pc = "idle"
    /\ failedAt = 0
    /\ abortedAfterWrite
    /\ Persisted = 0
    /\ HasAction(1)
    /\ ActionAt(1).block <= last_irreversible_block_num

\* C12 (stated as claimed): once all calls have returned, every balance entry
\* has IsObservable equal to whether its address is in the watched collection
ObservabilityMirrorsWatchSet ==
    (\A c \in Callers : calls[c].op = "none") =>
        \A id \in DOMAIN balances :
            balances[id].IsObservable = (balances[id].Address \in watched)

\* C14 (idempotent balance upsert): a second upsert with the same arguments
\* leaves the number of balance entries and the aggregated balance of the
\* address and asset (sum of Amount, sum of AmountInBaseUnit, max Block) as
\* the first call left them
UpsertIdempotent ==
    probe.again =>
        /\ Cardinality(DOMAIN balances) = Cardinality(DOMAIN probe.once)
        /\ get(balances, probe.args.address, probe.args.assetId)
              = get(probe.once, probe.args.address, probe.args.assetId)

\* upsert was called twice on an entry of a group of two entries, whose
\* aggregated balance is the sum of both
UpsertIdempotentWitness ==
    /\ probe.again
    /\ probe.args.amount = 5
    /\ Cardinality(DOMAIN balances) = 2
    /\ get(balances, probe.args.address, probe.args.assetId).Amount = 3
    /\ get(balances, probe.args.address, probe.args.assetId).Block = 3 * BlockFactor

RECURSIVE Flatten(_)
\* the entries of all pages, in the order returned
Flatten(pages) == IF pages = <<>> THEN <<>> ELSE Head(pages) \o Flatten(Tail(pages))

\* C13 (stated as claimed): on an unchanging ledger, the token returned is null
\* exactly when the observable, non-cancelled groups are exhausted; when it is
\* null the pages hold every such group exactly once; and no page is shorter
\* than both the page size and the number of groups that remained
PaginationTermination ==
    paging.calls > 0 =>
        LET all == Flatten(paging.pages)
            n == Cardinality(GroupKeys(balances))
            final == paging.pages[Len(paging.pages)]
            remaining == n - (Len(all) - Len(final))
        IN  /\ (paging.continuation = NULL) <=> (Len(all) >= n)
            /\ paging.continuation = NULL =>
                  \A key \in GroupKeys(balances) :
                      Cardinality({k \in DOMAIN all :
                                      <<all[k].Address, all[k].AssetId>> = key}) = 1
            /\ Len(final) >= (IF remaining < paging.take THEN remaining ELSE paging.take)

====
